---- MODULE Spec2Model ----
(***************************************************************************)
(* Model of the form-builder service (src/main.go): the x-client-key gate, *)
(* the save-form, get-form and submit-form handlers, and the files they    *)
(* keep under form-build/.                                                 *)
(*                                                                         *)
(* Go strings whose characters the code inspects or orders (form IDs,      *)
(* field names, the keys and values of a submitted mapping) are sequences  *)
(* of one-character strings; strings the code only compares with "" or     *)
(* with a constant (titles, labels, types, header values, messages) are    *)
(* TLA+ strings.  The filesystem is assumed to work: MkdirAll, Create,     *)
(* OpenFile, Stat and the writes do not fail.                              *)
(***************************************************************************)
EXTENDS Integers, Sequences, FiniteSets, TLC

\* ------------------------------------------------------------------ bounds
MaxClock == 2      \* wall-clock milliseconds the model distinguishes
MaxSaves == 2      \* save-form requests that store a form
MaxSubmits == 2    \* submit-form requests that pass the formID check
MaxProcs == 2      \* submit-form requests in flight at once

Procs == 1..MaxProcs

\* ----------------------------------------------------------------- strings
\* The characters of the model in ascending byte order.
Alphabet ==
    << " ", "-", "0", "1", "2", "3", "4", "5", "6", "7", "8", "9",
       "A", "B", "C", "D", "E", "F", "G", "H", "I", "J", "K", "L", "M",
       "N", "O", "P", "Q", "R", "S", "T", "U", "V", "W", "X", "Y", "Z",
       "_",
       "a", "b", "c", "d", "e", "f", "g", "h", "i", "j", "k", "l", "m",
       "n", "o", "p", "q", "r", "s", "t", "u", "v", "w", "x", "y", "z" >>

Ord(c) == CHOOSE i \in DOMAIN Alphabet : Alphabet[i] = c

Digits == <<"0", "1", "2", "3", "4", "5", "6", "7", "8", "9">>

AlnumChars == {Alphabet[i] : i \in 3..38} \cup {Alphabet[i] : i \in 40..65}

\* s < t, byte by byte, as Go compares strings.
StrLess(s, t) ==
    \E i \in 1..(Len(s) + 1) :
        /\ i <= Len(t)
        /\ \A j \in 1..(i - 1) : s[j] = t[j]
        /\ \/ i = Len(s) + 1
           \/ Ord(s[i]) < Ord(t[i])

\* fmt.Sprintf("%d", n), n >= 0.
RECURSIVE Sprintf_d(_)
Sprintf_d(n) ==
    IF n < 10 THEN <<Digits[n + 1]>>
    ELSE Sprintf_d(n \div 10) \o <<Digits[(n % 10) + 1]>>

\* ------------------------------------------------------------ Go maps
MapGet(m, k) == IF k \in DOMAIN m THEN m[k] ELSE <<>>

MapDelete(m, k) == [x \in DOMAIN m \ {k} |-> m[x]]

MapPut(m, k, v) == [x \in DOMAIN m \cup {k} |-> IF x = k THEN v ELSE m[x]]

\* The orders in which a range statement may visit the keys of m: the
\* language leaves the order unspecified, so every order is possible.
MapRangeOrders(m) ==
    LET n == Cardinality(DOMAIN m)
    IN  {s \in [1..n -> DOMAIN m] : \A i, j \in 1..n : s[i] = s[j] => i = j}

\* sort.Strings applied to the elements of S.
RECURSIVE SortStrings(_)
SortStrings(S) ==
    IF S = {} THEN <<>>
    ELSE LET m == CHOOSE x \in S : \A y \in S \ {x} : StrLess(x, y)
         IN  <<m>> \o SortStrings(S \ {m})

\* sortByKey: the keys are sorted, then inserted one by one into a new map.
sortByKey(in) ==
    LET keys == SortStrings(DOMAIN in)
    IN  [key \in {keys[i] : i \in DOMAIN keys} |-> in[key]]

\* ------------------------------------------------------------- validation
validFieldTypes == {"text", "email", "textarea", "number", "date", "checkbox"}

fieldTypeValidator(fieldType) == fieldType \in validFieldTypes

\* validator tag "alphanum": ^[a-zA-Z0-9]+$
alphanum(s) == Len(s) > 0 /\ \A i \in DOMAIN s : s[i] \in AlnumChars

\* Field: Label "required"; Type "required,fieldtype"; Name "required,alphanum".
ValidateField(f) ==
    /\ f.Label # ""
    /\ f.Type # "" /\ fieldTypeValidator(f.Type)
    /\ f.Name # <<>> /\ alphanum(f.Name)

\* Validate as it would be with Fields tagged "required" alone: the elements
\* are not looked at.
ValidateNoDive(form) ==
    /\ form.Title # ""
    /\ ~form.Fields.isNil

\* CustomValidator.Validate on a Form: Title "required"; Fields
\* "required,dive".  "required" on a slice asks that it is not nil; "dive"
\* validates each element.
Validate(form) ==
    /\ form.Title # ""
    /\ ~form.Fields.isNil
    /\ \A i \in DOMAIN form.Fields.elems : ValidateField(form.Fields.elems[i])

\* ------------------------------------------------------------------- JSON
\* A JSON object is the sequence of its <<name, value>> members as written.
EncodeField(f) ==
    << <<"label", f.Label>>, <<"type", f.Type>>, <<"name", f.Name>>,
       <<"placeholder", f.Placeholder>> >>

\* json.Encoder.Encode(form): members in the order of the struct's fields.
EncodeForm(form) ==
    << <<"title", form.Title>>,
       <<"fields", [i \in DOMAIN form.Fields.elems |->
                       EncodeField(form.Fields.elems[i])]>> >>

\* json.Unmarshal of an object into map[string]interface{}.
ObjectToMap(obj) ==
    [k \in {obj[i][1] : i \in DOMAIN obj} |->
        obj[CHOOSE i \in DOMAIN obj :
                /\ obj[i][1] = k
                /\ \A j \in DOMAIN obj : obj[j][1] = k => j <= i][2]]

\* The member names of a stored form, in ascending byte order.
JSONNames == <<"fields", "label", "name", "placeholder", "title", "type">>

\* json.Marshal of a map[string]interface{}: members sorted by name.
MarshalMap(m) ==
    LET names == SelectSeq(JSONNames, LAMBDA k : k \in DOMAIN m)
    IN  [i \in DOMAIN names |-> <<names[i], m[names[i]]>>]

\* loadJSON followed by json.Marshal: the top-level object becomes a map,
\* and so does every element of "fields".
loadJSON(doc) ==
    LET top == ObjectToMap(doc)
    IN  [k \in DOMAIN top |->
            IF k = "fields"
            THEN [i \in DOMAIN top[k] |-> ObjectToMap(top[k][i])]
            ELSE top[k]]

Marshal(jsonData) ==
    MarshalMap([k \in DOMAIN jsonData |->
                   IF k = "fields"
                   THEN [i \in DOMAIN jsonData[k] |-> MarshalMap(jsonData[k][i])]
                   ELSE jsonData[k]])

\* ------------------------------------------------------------- the gate
\* Config.ClientKeys' default, unmarshalled into allowedClientKeys by main.
allowedClientKeys == <<"api-key-1", "api-key-2">>

\* http.Header.Get: "" when the header is absent.
HeaderGet(h) == IF h.present THEN h.value ELSE ""

\* A gate without the loop over allowedClientKeys: any non-empty key passes.
clientKeyMiddlewareAnyKey(clientKey) ==
    IF clientKey = ""
    THEN [next |-> FALSE, status |-> 403,
          message |-> "x-client-key header is required"]
    ELSE [next |-> TRUE, status |-> 0, message |-> ""]

\* clientKeyMiddleware: what the gate decides for the value of x-client-key.
clientKeyMiddleware(clientKey) ==
    IF clientKey = ""
    THEN [next |-> FALSE, status |-> 403,
          message |-> "x-client-key header is required"]
    ELSE IF \E i \in DOMAIN allowedClientKeys : clientKey = allowedClientKeys[i]
    THEN [next |-> TRUE, status |-> 0, message |-> ""]
    ELSE [next |-> FALSE, status |-> 403, message |-> "key is not found"]

\* ------------------------------------------------------------ CSV files
\* encoding/csv writes a record as its fields joined by commas and a newline;
\* a record of one empty field is written as two quotes.  No character of
\* Alphabet needs quoting.  The number of bytes of one written record:
RECURSIVE SumLen(_)
SumLen(cells) ==
    IF cells = <<>> THEN 0 ELSE Len(Head(cells)) + SumLen(Tail(cells))

RowBytes(cells) ==
    IF Len(cells) = 1 /\ cells[1] = <<>> THEN 3
    ELSE IF Len(cells) = 0 THEN 1
    ELSE SumLen(cells) + (Len(cells) - 1) + 1

\* info.Size() of a file holding the rows.
RECURSIVE FileSize(_)
FileSize(rows) ==
    IF rows = <<>> THEN 0 ELSE RowBytes(Head(rows).cells) + FileSize(Tail(rows))

\* isNewFile without the look at the size: every request writes a header.
IsNewFileAlways(rows) == TRUE

\* isNewFile := info.Size() == 0
IsNewFile(rows) == FileSize(rows) = 0

\* OpenFile with O_TRUNC in place of O_APPEND: the file is emptied.
OpenFileTrunc(files, id) == MapPut(files, id, <<>>)

\* os.OpenFile(csvFilePath, O_APPEND|O_CREATE|O_WRONLY): the file is created
\* empty when absent and left as it is otherwise.
OpenFile(files, id) == IF id \in DOMAIN files THEN files ELSE MapPut(files, id, <<>>)

\* A mutex declared outside the handler: one for all requests.
MutexShared(p) == 1

\* var s sync.Mutex inside the handler: each request has a mutex of its own.
MutexOf(p) == p

\* ------------------------------------------------------------- requests
kFormID == <<"f", "o", "r", "m", "I", "D">>
kClientXToken == <<"c", "l", "i", "e", "n", "t", "X", "T", "o", "k", "e", "n">>
kReferrer == <<"r", "e", "f", "e", "r", "r", "e", "r">>

\* c.Bind into a map[string]string: the path parameter formID first, then
\* the values of the body, which replace it when they name the same key.
Bind(pathID, body) ==
    [k \in DOMAIN body \cup {kFormID} |-> IF k \in DOMAIN body THEN body[k] ELSE pathID]

\* The form IDs requests name: none, a blank one, and those save-form makes.
IDs == {<<>>, <<" ">>} \cup {Sprintf_d(c) : c \in 1..MaxClock}

\* The bodies of submit-form requests.
bodyEmpty == <<>>
bodyOne == (<<"a">> :> <<"1">>)
bodyTwo ==
    (<<"b">> :> <<"1">>) @@ (<<"Z">> :> <<"2", "0">>)
        @@ (kClientXToken :> <<"x">>) @@ (kReferrer :> <<"r">>)

\* The values of the x-client-key header.
hdrAbsent == [present |-> FALSE, value |-> ""]
hdrEmpty == [present |-> TRUE, value |-> ""]
hdrKey1 == [present |-> TRUE, value |-> "api-key-1"]
hdrKey2 == [present |-> TRUE, value |-> "api-key-2"]
hdrOther == [present |-> TRUE, value |-> "API-KEY-1"]

fName == [Label |-> "Name", Type |-> "text", Name |-> <<"n", "1">>, Placeholder |-> ""]
fMail == [Label |-> "Mail", Type |-> "email", Name |-> <<"M">>, Placeholder |-> "you"]

BadFields ==
    { [fName EXCEPT !.Label = ""],
      [fName EXCEPT !.Type = "radio"],
      [fName EXCEPT !.Type = ""],
      [fName EXCEPT !.Name = <<>>],
      [fName EXCEPT !.Name = <<"a", " ", "b">>],
      [fName EXCEPT !.Name = <<"a", "_">>] }

\* A Go slice of Field: nil, or its elements.
NilSlice == [isNil |-> TRUE, elems |-> <<>>]
Slice(elems) == [isNil |-> FALSE, elems |-> elems]

FieldLists ==
    {NilSlice, Slice(<<>>), Slice(<<fName>>), Slice(<<fName, fMail>>)}
    \cup {Slice(<<b>>) : b \in BadFields}
    \cup {Slice(<<fName, b>>) : b \in BadFields}

Forms ==
    {[Title |-> "T", Fields |-> fs] : fs \in FieldLists}
    \cup {[Title |-> "", Fields |-> Slice(<<fName>>)]}

\* The bodies of save-form requests: JSON that does not bind, or a Form.
NoBody == [wellFormed |-> FALSE, form |-> [Title |-> "", Fields |-> NilSlice]]
Body(f) == [wellFormed |-> TRUE, form |-> f]

\* save-form requests: every body under one configured key, one body under
\* the other, and the headers the gate turns away (their body is not read).
SaveRequests ==
    {[hdr |-> hdrKey2, body |-> b] : b \in {NoBody} \cup {Body(f) : f \in Forms}}
    \cup {[hdr |-> hdrKey1, body |-> Body([Title |-> "T", Fields |-> Slice(<<fName>>)])]}
    \cup {[hdr |-> h, body |-> NoBody] : h \in {hdrAbsent, hdrEmpty, hdrOther}}

SaveRequestsFew ==
    { [hdr |-> hdrKey1, body |-> Body([Title |-> "T", Fields |-> Slice(<<fName>>)])],
      [hdr |-> hdrAbsent, body |-> NoBody] }

\* ------------------------------------------------------------------ state
VARIABLES
    clock,      \* time.Now().UnixMilli()
    dirs,       \* the IDs whose directory form-build/<ID> exists
    forms,      \* ID -> content of form-build/<ID>/form.json, where it exists
    csv,        \* ID -> rows of form-build/<ID>/form_answer.csv, where it exists
    pc,         \* where each submit-form request stands
    local,      \* the local variables of each submit-form request
    mutex,      \* mutex -> whether it is locked
    nsub,       \* submit-form requests that passed the formID check
    nsave,      \* save-form requests that stored a form
    saved,      \* history: ID -> the Forms save-form stored under it
    okSubmits,  \* history: ID -> number of submit-form requests answered 200
    resp        \* the request handled by the last step, and its response

vars == <<clock, dirs, forms, csv, pc, local, mutex, nsub, nsave, saved,
          okSubmits, resp>>

fsys == <<dirs, forms, csv>>

IdleLocal ==
    [dir |-> <<>>, input |-> <<>>, formData |-> <<>>, referrer |-> <<>>,
     isNewFile |-> FALSE, by |-> 0]

Init ==
    /\ clock = 1
    /\ dirs = {}
    /\ forms = <<>>
    /\ csv = <<>>
    /\ pc = [p \in Procs |-> "idle"]
    /\ local = [p \in Procs |-> IdleLocal]
    /\ mutex = [p \in Procs |-> FALSE]
    /\ nsub = 0
    /\ nsave = 0
    /\ saved = <<>>
    /\ okSubmits = <<>>
    /\ resp = [op |-> "none", status |-> 0]

\* The wall clock moves on.
Tick ==
    /\ clock < MaxClock
    /\ clock' = clock + 1
    /\ UNCHANGED <<dirs, forms, csv, pc, local, mutex, nsub, nsave, saved,
                   okSubmits, resp>>

\* ------------------------------------------------------------- save-form
\* POST /api/save-form behind clientKeyMiddleware, with header h and a body.
SaveForm(h, body) ==
    LET gate == clientKeyMiddleware(HeaderGet(h))
        ID == Sprintf_d(clock)
        stored == gate.next /\ body.wellFormed /\ Validate(body.form)
    IN  /\ stored => nsave < MaxSaves
        /\ resp' =
             IF ~gate.next
             THEN [op |-> "save", hdr |-> h, handled |-> FALSE, body |-> NoBody,
                   status |-> gate.status, message |-> gate.message]
             ELSE IF ~body.wellFormed
             THEN [op |-> "save", hdr |-> h, handled |-> TRUE, body |-> body,
                   status |-> 400, message |-> "Invalid form structure"]
             ELSE IF ~Validate(body.form)
             THEN [op |-> "save", hdr |-> h, handled |-> TRUE, body |-> body,
                   status |-> 400, message |-> "validation"]
             ELSE [op |-> "save", hdr |-> h, handled |-> TRUE, body |-> body,
                   status |-> 200, message |-> "Form saved successfully",
                   path |-> ID]
        /\ dirs' = IF stored THEN dirs \cup {ID} ELSE dirs
        /\ forms' = IF stored THEN MapPut(forms, ID, EncodeForm(body.form))
                    ELSE forms
        /\ saved' = IF stored
                    THEN MapPut(saved, ID,
                                (IF ID \in DOMAIN saved THEN saved[ID] ELSE {})
                                    \cup {body.form})
                    ELSE saved
        /\ nsave' = IF stored THEN nsave + 1 ELSE nsave
        /\ UNCHANGED <<clock, csv, pc, local, mutex, nsub, okSubmits>>

\* -------------------------------------------------------------- get-form
failedMissingMandatoryParameterMsg == "Missing mandatory parameter"
failedNotfoundMsg == "Failed get form because the form not found or no longer exists"

\* A handler without the check of the ID.
MissingParamNever(ID) == FALSE

\* if ID == ""
MissingParam(ID) == ID = <<>>

\* fileExists(form-build/<ID>/form.json)
fileExists(ID) == ID \in DOMAIN forms

\* GET /api/get-form/:formID.  fsAccess lists the file operations it made.
GetForm(ID) ==
    /\ resp' =
         IF MissingParam(ID)
         THEN [op |-> "get", id |-> ID, status |-> 400,
               message |-> failedMissingMandatoryParameterMsg,
               fsAccess |-> <<>>]
         ELSE IF ~fileExists(ID)
         THEN [op |-> "get", id |-> ID, status |-> 404,
               message |-> failedNotfoundMsg,
               fsAccess |-> << <<"stat", ID>> >>]
         ELSE [op |-> "get", id |-> ID, status |-> 200, message |-> "",
               fsAccess |-> << <<"stat", ID>>, <<"read", ID>>,
                               <<"read", <<"form.html">> >> >>,
               data |-> Marshal(loadJSON(forms[ID])),
               url |-> <<"/api/submit-form", ID>>,
               clientXToken |-> "x.y.z"]
    /\ UNCHANGED <<clock, dirs, forms, csv, pc, local, mutex, nsub, nsave,
                   saved, okSubmits>>

\* ----------------------------------------------------------- submit-form
\* POST /api/submit-form/:formID up to the Stat of the opened CSV file:
\* Bind, the formID check, MkdirAll, the removal of the reserved keys,
\* sortByKey, OpenFile and Stat.
SubmitBegin(p, pathID, body) ==
    LET bound == Bind(pathID, body)
        dir == MapGet(bound, kFormID)
        formData == sortByKey(MapDelete(MapDelete(MapDelete(bound, kFormID),
                                                  kClientXToken), kReferrer))
        files == OpenFile(csv, dir)
    IN  /\ pc[p] = "idle"
        /\ IF dir = <<>>
           THEN /\ resp' = [op |-> "submit", id |-> dir, status |-> 400,
                            message |-> "Invalid form data"]
                /\ UNCHANGED <<dirs, csv, pc, local, nsub>>
           ELSE /\ nsub < MaxSubmits
                /\ dirs' = dirs \cup {dir}
                /\ csv' = files
                /\ local' = [local EXCEPT ![p] =
                               [dir |-> dir, input |-> bound,
                                formData |-> formData,
                                referrer |-> MapGet(bound, kReferrer),
                                isNewFile |-> IsNewFile(files[dir]),
                                by |-> nsub + 1]]
                /\ nsub' = nsub + 1
                /\ pc' = [pc EXCEPT ![p] = "lock"]
                /\ resp' = [op |-> "submit", id |-> dir, status |-> 0,
                            message |-> ""]
        /\ UNCHANGED <<clock, forms, mutex, nsave, saved, okSubmits>>

\* s.Lock()
SubmitLock(p) ==
    /\ pc[p] = "lock"
    /\ ~mutex[MutexOf(p)]
    /\ mutex' = [mutex EXCEPT ![MutexOf(p)] = TRUE]
    /\ pc' = [pc EXCEPT ![p] = "write"]
    /\ resp' = [op |-> "submit", id |-> local[p].dir, status |-> 0,
                message |-> ""]
    /\ UNCHANGED <<clock, dirs, forms, csv, local, nsub, nsave, saved,
                   okSubmits>>

\* The rest of the handler: the header when the file was new, the record,
\* and on return Flush, Unlock and Close.  Header and record are buffered by
\* the csv.Writer and reach the file together, appended at its end.
SubmitWrite(p) ==
    LET l == local[p]
    IN  /\ pc[p] = "write"
        /\ \E hOrder \in MapRangeOrders(l.formData),
              rOrder \in MapRangeOrders(l.formData) :
             LET headers == hOrder
                 record == [i \in DOMAIN rOrder |-> l.formData[rOrder[i]]]
                 rows == (IF l.isNewFile
                          THEN <<[cells |-> headers, kind |-> "header",
                                  by |-> l.by]>>
                          ELSE <<>>)
                         \o <<[cells |-> record, kind |-> "data", by |-> l.by]>>
             IN  /\ csv' = [csv EXCEPT ![l.dir] = @ \o rows]
                 /\ resp' = [op |-> "submit", id |-> l.dir, status |-> 200,
                             message |-> "", input |-> l.input,
                             wroteHeader |-> l.isNewFile, headers |-> headers,
                             record |-> record, referrer |-> l.referrer]
        /\ mutex' = [mutex EXCEPT ![MutexOf(p)] = FALSE]
        /\ pc' = [pc EXCEPT ![p] = "idle"]
        /\ local' = [local EXCEPT ![p] = IdleLocal]
        /\ okSubmits' = MapPut(okSubmits, l.dir,
                               (IF l.dir \in DOMAIN okSubmits
                                THEN okSubmits[l.dir] ELSE 0) + 1)
        /\ UNCHANGED <<clock, dirs, forms, nsub, nsave, saved>>

\* submit-form requests handled one after another: a request begins only
\* when no other is in flight.
SubmitBeginAlone(p, pathID, body) ==
    /\ \A q \in Procs : pc[q] = "idle"
    /\ SubmitBegin(p, pathID, body)

\* ---------------------------------------------------------- specifications
\* Every specification has every operation; they differ in the requests
\* they draw.  Spec: submit-form requests overlap.
Next ==
    \/ Tick
    \/ \E r \in SaveRequestsFew : SaveForm(r.hdr, r.body)
    \/ \E ID \in {<<>>, Sprintf_d(1)} : GetForm(ID)
    \/ \E p \in Procs, ID \in {<<>>, Sprintf_d(1)}, body \in {bodyEmpty, bodyOne} :
          SubmitBegin(p, ID, body)
    \/ \E p \in Procs : SubmitLock(p)
    \/ \E p \in Procs : SubmitWrite(p)

Spec == Init /\ [][Next]_vars

\* SpecSeq: submit-form requests one after another, for several IDs and bodies.
NextSeq ==
    \/ Tick
    \/ \E r \in SaveRequestsFew : SaveForm(r.hdr, r.body)
    \/ \E ID \in {<<>>, Sprintf_d(1)} : GetForm(ID)
    \/ \E p \in Procs, ID \in {<<>>, Sprintf_d(1), Sprintf_d(2)},
          body \in {bodyEmpty, bodyOne, bodyTwo} :
          SubmitBeginAlone(p, ID, body)
    \/ \E p \in Procs : SubmitLock(p)
    \/ \E p \in Procs : SubmitWrite(p)

SpecSeq == Init /\ [][NextSeq]_vars

\* SpecForms: every save-form request and every get-form ID; submit-form
\* requests one after another.
NextForms ==
    \/ Tick
    \/ \E r \in SaveRequests : SaveForm(r.hdr, r.body)
    \/ \E ID \in IDs : GetForm(ID)
    \/ \E p \in Procs, ID \in {<<>>, Sprintf_d(1)} :
          SubmitBeginAlone(p, ID, bodyEmpty)
    \/ \E p \in Procs : SubmitLock(p)
    \/ \E p \in Procs : SubmitWrite(p)

SpecForms == Init /\ [][NextForms]_vars

\* ------------------------------------------------------------------ claims
HeaderRows(rows) == {i \in DOMAIN rows : rows[i].kind = "header"}

ReservedKeys == {kFormID, kClientXToken, kReferrer}

\* C1: when submit-form requests for an ID run one after another, starting
\* without a CSV, then after n >= 1 of them were answered 200 the CSV is one
\* header row, written by the first of them, and then n data rows in the
\* order of the submissions.
C1_OneHeaderThenRowsInOrder ==
    \A id \in DOMAIN okSubmits :
        LET rows == csv[id]
            n == okSubmits[id]
        IN  /\ Len(rows) = n + 1
            /\ rows[1].kind = "header"
            /\ \A k \in 2..(n + 1) : rows[k].kind = "data"
            /\ rows[1].by = rows[2].by
            /\ \A j, k \in 2..(n + 1) : j < k => rows[j].by < rows[k].by

\* C1: two submissions for one ID were answered.
C1_TwoSubmitsAnswered == \E id \in DOMAIN okSubmits : okSubmits[id] >= 2

\* C2: the header a submit-form writes is the sorted list of the submitted
\* keys without the reserved ones, and the data row holds the values of
\* those keys in that order.
C2_RowsInSortedKeyOrder ==
    (resp.op = "submit" /\ resp.status = 200) =>
        LET keys == SortStrings(DOMAIN resp.input \ ReservedKeys)
        IN  /\ resp.wroteHeader => resp.headers = keys
            /\ resp.record = [i \in DOMAIN keys |-> resp.input[keys[i]]]

ConfiguredKeys == {allowedClientKeys[i] : i \in DOMAIN allowedClientKeys}

\* C3: a save-form request with no or an empty x-client-key gets 403 and
\* "x-client-key header is required"; with a non-empty key that is not
\* configured, 403 and "key is not found"; with a configured key it reaches
\* the handler.  In the first two cases the handler does not run and
\* nothing under form-build changes.
C3_GateOutcomes ==
    [][resp'.op = "save" =>
          LET k == HeaderGet(resp'.hdr)
          IN  /\ k = "" =>
                    /\ resp'.status = 403
                    /\ resp'.message = "x-client-key header is required"
                    /\ ~resp'.handled
                    /\ UNCHANGED fsys
              /\ (k # "" /\ k \notin ConfiguredKeys) =>
                    /\ resp'.status = 403
                    /\ resp'.message = "key is not found"
                    /\ ~resp'.handled
                    /\ UNCHANGED fsys
              /\ (k # "" /\ k \in ConfiguredKeys) =>
                    /\ resp'.handled
                    /\ resp'.status # 403]_vars

\* C3: a request with a configured key stored a form.
C3_KeyAcceptedAndStored ==
    resp.op = "save" /\ resp.handled /\ resp.status = 200 /\ forms # <<>>

InvalidField(f) ==
    \/ f.Label = ""
    \/ f.Type \notin {"text", "email", "textarea", "number", "date", "checkbox"}
    \/ f.Name = <<>>
    \/ \E i \in DOMAIN f.Name : f.Name[i] \notin AlnumChars

HasInvalidField(form) ==
    \E i \in DOMAIN form.Fields.elems : InvalidField(form.Fields.elems[i])

\* C4: a Form with an invalid field or an empty title is answered 400 by
\* the save-form handler, and no directory or file is created or changed.
C4_InvalidFormRejected ==
    [][(/\ resp'.op = "save" /\ resp'.handled /\ resp'.body.wellFormed
        /\ (resp'.body.form.Title = "" \/ HasInvalidField(resp'.body.form)))
          => (resp'.status = 400 /\ UNCHANGED fsys)]_vars

\* C4: the handler answered a Form with an invalid field.
C4_InvalidFieldSeen ==
    /\ resp.op = "save" /\ resp.handled /\ resp.body.wellFormed
    /\ HasInvalidField(resp.body.form)
    /\ resp.status = 400

\* C5: a Form with a title and an empty, present list of fields is
\* answered 400 by the save-form handler.
C5_EmptyFieldsRejected ==
    (/\ resp.op = "save" /\ resp.handled /\ resp.body.wellFormed
     /\ resp.body.form.Title # ""
     /\ ~resp.body.form.Fields.isNil
     /\ resp.body.form.Fields.elems = <<>>)
        => resp.status = 400

Member(obj, name) == obj[CHOOSE i \in DOMAIN obj : obj[i][1] = name][2]

\* The rendered data hold the title and the fields of form f, in order.
SameForm(data, f) ==
    /\ Member(data, "title") = f.Title
    /\ LET fs == Member(data, "fields")
       IN  /\ Len(fs) = Len(f.Fields.elems)
           /\ \A i \in DOMAIN fs :
                /\ Member(fs[i], "label") = f.Fields.elems[i].Label
                /\ Member(fs[i], "type") = f.Fields.elems[i].Type
                /\ Member(fs[i], "name") = f.Fields.elems[i].Name
                /\ Member(fs[i], "placeholder") = f.Fields.elems[i].Placeholder

\* C6: get-form of an ID under which no save-form stored a form answers 404,
\* also when submit-form made the ID's directory; get-form of the ID a
\* save-form of f returned answers with the content of f.
C6_GetReturnsWhatWasSaved ==
    (resp.op = "get" /\ resp.id # <<>>) =>
        /\ resp.id \notin DOMAIN saved => resp.status = 404
        /\ resp.id \in DOMAIN saved =>
              \A f \in saved[resp.id] :
                  resp.status = 200 /\ SameForm(resp.data, f)

\* C7: no step changes or removes a form.json that exists.
C7_StoredFormWriteOnce ==
    [][\A id \in DOMAIN forms : id \in DOMAIN forms' /\ forms'[id] = forms[id]]_vars

Blank(id) == Len(id) > 0 /\ \A i \in DOMAIN id : id[i] = " "

\* C8 as stated: get-form with an empty or blank ID answers 400 "Missing
\* mandatory parameter" without a file operation.
C8_EmptyOrBlankRejected ==
    (resp.op = "get" /\ (resp.id = <<>> \/ Blank(resp.id))) =>
        /\ resp.status = 400
        /\ resp.message = "Missing mandatory parameter"
        /\ resp.fsAccess = <<>>

\* C8 amended: get-form with an empty ID answers 400 "Missing mandatory
\* parameter" without a file operation.
C8_EmptyRejected ==
    (resp.op = "get" /\ resp.id = <<>>) =>
        /\ resp.status = 400
        /\ resp.message = "Missing mandatory parameter"
        /\ resp.fsAccess = <<>>

\* C8: a get-form with an empty ID was answered.
C8_EmptySeen == resp.op = "get" /\ resp.id = <<>>

\* C9: no submit-form request ever finds its mutex locked, and every
\* request that read the CSV's size as zero writes a header row of its own,
\* whatever other requests wrote in between.
C9_NoSerialization ==
    /\ [](\A p \in Procs : pc[p] = "lock" => ~mutex[MutexOf(p)])
    /\ [][\A p \in Procs :
            (pc[p] = "write" /\ pc'[p] = "idle" /\ local[p].isNewFile) =>
                LET d == local[p].dir
                IN  /\ Len(csv'[d]) = Len(csv[d]) + 2
                    /\ csv'[d][Len(csv[d]) + 1].kind = "header"
                    /\ csv'[d][Len(csv[d]) + 1].by = local[p].by]_vars

\* C9: a CSV holds more than one header row.
C9_TwoHeaderRows ==
    \E id \in DOMAIN csv : Cardinality(HeaderRows(csv[id])) > 1

\* C10: in every step the rows of every CSV stay, unchanged, the first rows
\* of that CSV; save-form, get-form and a submit-form answered 400 leave
\* every CSV as it is.
C10_CsvAppendOnly ==
    [][/\ \A id \in DOMAIN csv :
            /\ id \in DOMAIN csv'
            /\ Len(csv'[id]) >= Len(csv[id])
            /\ SubSeq(csv'[id], 1, Len(csv[id])) = csv[id]
       /\ (resp'.op \in {"save", "get"}
             \/ (resp'.op = "submit" /\ resp'.status = 400)) => csv' = csv]_vars

\* C10: a record was appended to a CSV that already held rows.
C10_AppendedToExisting ==
    resp.op = "submit" /\ resp.status = 200 /\ ~resp.wroteHeader

====
